---- MODULE Spec2Model ----
(***************************************************************************)
(* QuickDesk backend (src/backend/server.js, the second, complete copy of  *)
(* the server: lines 374-1048) as a state machine.                         *)
(*                                                                         *)
(* The state is the database (one set of rows per table) and the requests  *)
(* in flight.  A request is one slot of req: its route, its inputs, the    *)
(* handler's locals and its position.  Every `await prisma...` of a        *)
(* handler is one step: the step performs the database operation and the   *)
(* synchronous code that follows it up to the next await.  Steps of        *)
(* different requests interleave freely, as they do on the Node event loop *)
(* with a shared database.  Each client (a slot of req) sends its next      *)
(* request after the answer to its last one; budget counts the requests still to *)
(* be sent, held is the set of tokens the clients can send, and applied     *)
(* records the role requests whose approval has updated the user.          *)
(***************************************************************************)
EXTENDS Integers, FiniteSets, Sequences, TLC

VARIABLES users, tickets, comments, votes, categories, roleReqs, req, nextVoteId,
          budget, applied, held

vars == <<users, tickets, comments, votes, categories, roleReqs, req, nextVoteId,
          budget, applied, held>>
db == <<users, tickets, comments, votes, categories, roleReqs>>

(* ------------------------------ bounds -------------------------------- *)
MaxUsers == 4
MaxTickets == 2
MaxComments == 2
MaxCategories == 1
MaxRoleReqs == 2
MaxVoteId == 3
MaxRequests == 3
MaxCalls == 2

Slots == {"a", "b"}
UserIds == 1..MaxUsers
TicketIds == 1..MaxTickets
RoleReqIds == 1..MaxRoleReqs

(* ------------------------- program constants -------------------------- *)
Roles == {"END_USER", "SUPPORT_AGENT", "ADMIN"}
ValidStatuses == {"OPEN", "IN_PROGRESS", "RESOLVED", "CLOSED"}
UpgradeRoles == {"SUPPORT_AGENT", "ADMIN"}
Decisions == {"APPROVED", "REJECTED"}
VoteTypes == {"UP", "DOWN"}
DefaultRole == "END_USER"
DefaultStatus == "OPEN"
DefaultRequestStatus == "PENDING"

\* The three demo accounts of the README: admin, support agent, end user.
DemoUsers ==
  { [id |-> 1, email |-> 1, role |-> "ADMIN"],
    [id |-> 2, email |-> 2, role |-> "SUPPORT_AGENT"],
    [id |-> 3, email |-> 3, role |-> "END_USER"] }

(* Tokens: 0 is a request without Authorization header, -1 a token that   *)
(* jwt.verify rejects (forged, malformed or expired), and u > 0 a token    *)
(* signed by jwt.sign({ userId: u }) with the server's secret.             *)
Tokens == {-1, 0} \cup UserIds

(* ------------------------------ requests ------------------------------ *)
Idle ==
  [kind |-> "none", pc |-> "idle", token |-> 0, uid |-> 0, role |-> "",
   id |-> 0, val |-> "", flag |-> FALSE, loc |-> 0, ltype |-> "",
   up |-> 0, down |-> 0, code |-> 0, out |-> {}]

\* The slot of a client that takes no part in the run.
Absent == [Idle EXCEPT !.pc = "absent"]

\* A client may send a request when it is not waiting for an answer.
Free(s) == req[s].pc \in {"idle", "done"} /\ budget > 0

\* res.status(c).json(...): the request is answered and ends; its locals die.
Respond(r, c) ==
  [r EXCEPT !.pc = "done", !.code = c, !.token = 0, !.flag = FALSE, !.loc = 0,
            !.ltype = "", !.up = 0, !.down = 0]

(* ------------------------------ database ------------------------------ *)
UserRow(u) == CHOOSE r \in users : r.id = u
UserExists(u) == \E r \in users : r.id = u
TicketRow(t) == CHOOSE r \in tickets : r.id = t
TicketExists(t) == \E r \in tickets : r.id = t

\* The database after seeding, before any request.
InitDb ==
  /\ users = DemoUsers
  /\ tickets = {}
  /\ comments = {}
  /\ votes = {}
  /\ categories = {}
  /\ roleReqs = {}
  /\ nextVoteId = 1
  /\ applied = {}

\* One client, which can send any token.
Init ==
  /\ InitDb
  /\ req = [s \in Slots |-> IF s = "a" THEN Idle ELSE Absent]
  /\ held = Tokens
  /\ budget = MaxCalls

\* Two clients, logged in to the demo accounts.
InitTwo ==
  /\ InitDb
  /\ req = [s \in Slots |-> Idle]
  /\ held = {u.id : u \in DemoUsers}
  /\ budget = MaxRequests

(* ----------------------------- middleware ----------------------------- *)
\* Routes registered without authenticateToken.
OpenRoutes == {"register", "login"}

\* (mutant) POST /api/tickets/:id/comments registered without authenticateToken
AuthRoutesNoComment ==
  {"me", "profile", "categories_get", "categories_post", "tickets_get",
   "tickets_post", "ticket_get", "status_put", "vote_post",
   "user_vote_get", "analytics", "admin_users", "rolereq_post",
   "rolereq_get", "rolereq_put", "my_rolereqs"}

\* Routes registered with authenticateToken as their first middleware.
AuthRoutes ==
  {"me", "profile", "categories_get", "categories_post", "tickets_get",
   "tickets_post", "ticket_get", "status_put", "comment_post", "vote_post",
   "user_vote_get", "analytics", "admin_users", "rolereq_post",
   "rolereq_get", "rolereq_put", "my_rolereqs"}

\* (mutant) POST /api/categories registered without requireRole(['ADMIN'])
RequiredRolesNoCategory(kind) ==
  IF kind \in {"analytics", "admin_users", "rolereq_get", "rolereq_put"}
  THEN {"ADMIN"} ELSE Roles

\* requireRole(roles) of the route; every role where the route has none.
RequiredRoles(kind) ==
  IF kind \in {"categories_post", "analytics", "admin_users",
               "rolereq_get", "rolereq_put"}
  THEN {"ADMIN"} ELSE Roles

\* (mutant) the status of the body is not validated
AnyStatus(st) == TRUE

\* validStatuses.includes(status)
StatusIsValid(st) == st \in ValidStatuses

\* The synchronous start of each handler: its validation of the request and
\* the first database operation it issues.
Enter(r) ==
  CASE r.kind = "register" ->
         IF ~r.flag THEN Respond(r, 400) ELSE [r EXCEPT !.pc = "register_find"]
    [] r.kind = "me" -> [Respond(r, 200) EXCEPT !.out = {r.uid}]
    [] r.kind = "profile" ->
         IF ~r.flag THEN Respond(r, 400) ELSE [r EXCEPT !.pc = "profile_find"]
    [] r.kind = "status_put" ->
         IF ~StatusIsValid(r.val) THEN Respond(r, 400)
         ELSE [r EXCEPT !.pc = "status_find"]
    [] r.kind = "rolereq_post" ->
         IF r.val \notin UpgradeRoles THEN Respond(r, 400)
         ELSE [r EXCEPT !.pc = "rolereq_find"]
    [] r.kind = "rolereq_put" ->
         IF r.val \notin Decisions THEN Respond(r, 400)
         ELSE [r EXCEPT !.pc = "process_find"]
    [] r.kind = "vote_post" -> [r EXCEPT !.pc = "vote_find"]
    [] OTHER -> [r EXCEPT !.pc = r.kind]

\* requireRole: 403 unless req.user.role is one of the route's roles.
RequireRole(r) ==
  IF r.role \notin RequiredRoles(r.kind) THEN Respond(r, 403) ELSE Enter(r)

\* authenticateToken, given the slot's request.
AuthResult(r) ==
  IF r.token = 0 THEN Respond(r, 401)
  ELSE IF r.token = -1 THEN Respond(r, 403)
  ELSE IF ~UserExists(r.token) THEN Respond(r, 403)
  ELSE RequireRole([r EXCEPT !.uid = r.token, !.role = UserRow(r.token).role])

Authenticate(s) ==
  /\ req[s].pc = "auth"
  /\ req' = [req EXCEPT ![s] = AuthResult(req[s])]
  /\ UNCHANGED <<db, nextVoteId, budget, applied, held>>

\* A request arrives: routes with authenticateToken wait for its user lookup,
\* the others enter their handler at once.
Arrive(s, kind, token, id, val, flag) ==
  /\ Free(s)
  /\ LET r == [Idle EXCEPT !.kind = kind, !.pc = "auth", !.token = token,
                           !.id = id, !.val = val, !.flag = flag] IN
       req' = [req EXCEPT ![s] = IF kind \in AuthRoutes THEN r ELSE Enter(r)]
  /\ budget' = budget - 1
  /\ UNCHANGED <<db, nextVoteId, applied, held>>

(* ------------------------------ tickets ------------------------------- *)
StartCreateTicket(s) ==
  \E tok \in held : Arrive(s, "tickets_post", tok, 0, "", FALSE)

\* prisma.ticket.create: status and votes take the schema's defaults.
TicketCreate(s) ==
  /\ req[s].pc = "tickets_post"
  /\ Cardinality(tickets) < MaxTickets
  /\ LET t == Cardinality(tickets) + 1 IN
       /\ tickets' = tickets \cup
            {[id |-> t, createdBy |-> req[s].uid, status |-> DefaultStatus,
              votes |-> 0]}
       /\ req' = [req EXCEPT ![s] = [Respond(req[s], 201) EXCEPT !.out = {t}]]
  /\ UNCHANGED <<users, comments, votes, categories, roleReqs, nextVoteId, budget, applied, held>>

(* ------------------------------- votes -------------------------------- *)
StartVote(s) ==
  \E tok \in held, t \in TicketIds, type \in VoteTypes :
    Arrive(s, "vote_post", tok, t, type, FALSE)

\* (mutant) votes without the unique key
NoVoteKey(u, t) == TRUE

\* The compound unique key userId_ticketId of the votes table.
VoteKeyFree(u, t) == ~\E v \in votes : v.userId = u /\ v.ticketId = t

\* prisma.vote.findUnique({ where: { userId_ticketId } })
VoteFind(s) ==
  /\ req[s].pc = "vote_find"
  /\ LET r == req[s]
         found == {v \in votes : v.userId = r.uid /\ v.ticketId = r.id} IN
       req' = [req EXCEPT ![s] =
         IF found = {} THEN [r EXCEPT !.pc = "vote_write", !.loc = 0]
         ELSE LET v == CHOOSE x \in found : TRUE IN
              [r EXCEPT !.pc = "vote_write", !.loc = v.id, !.ltype = v.type]]
  /\ UNCHANGED <<db, nextVoteId, budget, applied, held>>

\* The write the handler chose from existingVote: delete, update or create.
\* A write the database rejects throws, and the catch block answers 500.
VoteWrite(s) ==
  /\ req[s].pc = "vote_write"
  /\ LET r == req[s]
         row == {v \in votes : v.id = r.loc} IN
       IF r.loc # 0 THEN
         IF row = {} THEN
           /\ req' = [req EXCEPT ![s] = Respond(r, 500)]
           /\ UNCHANGED <<votes, nextVoteId>>
         ELSE IF r.ltype = r.val THEN
           /\ votes' = votes \ row
           /\ req' = [req EXCEPT ![s].pc = "vote_count_up"]
           /\ UNCHANGED nextVoteId
         ELSE
           /\ votes' = (votes \ row) \cup
                {[v EXCEPT !.type = r.val] : v \in row}
           /\ req' = [req EXCEPT ![s].pc = "vote_count_up"]
           /\ UNCHANGED nextVoteId
       ELSE
         IF TicketExists(r.id) /\ VoteKeyFree(r.uid, r.id) THEN
           /\ nextVoteId <= MaxVoteId
           /\ votes' = votes \cup
                {[id |-> nextVoteId, userId |-> r.uid, ticketId |-> r.id,
                  type |-> r.val]}
           /\ nextVoteId' = nextVoteId + 1
           /\ req' = [req EXCEPT ![s].pc = "vote_count_up"]
         ELSE
           /\ req' = [req EXCEPT ![s] = Respond(r, 500)]
           /\ UNCHANGED <<votes, nextVoteId>>
  /\ UNCHANGED <<users, tickets, comments, categories, roleReqs, budget, applied, held>>

VoteCount(t, type) ==
  Cardinality({v \in votes : v.ticketId = t /\ v.type = type})

\* prisma.vote.count({ where: { ticketId: id, type: 'UP' } })
VoteCountUp(s) ==
  /\ req[s].pc = "vote_count_up"
  /\ req' = [req EXCEPT ![s].pc = "vote_count_down",
                        ![s].up = VoteCount(req[s].id, "UP")]
  /\ UNCHANGED <<db, nextVoteId, budget, applied, held>>

\* prisma.vote.count({ where: { ticketId: id, type: 'DOWN' } })
VoteCountDown(s) ==
  /\ req[s].pc = "vote_count_down"
  /\ req' = [req EXCEPT ![s].pc = "vote_update",
                        ![s].down = VoteCount(req[s].id, "DOWN")]
  /\ UNCHANGED <<db, nextVoteId, budget, applied, held>>

\* prisma.ticket.update({ data: { votes: upVotes - downVotes } })
VoteUpdateTicket(s) ==
  /\ req[s].pc = "vote_update"
  /\ LET r == req[s] IN
       IF TicketExists(r.id) THEN
         /\ tickets' = (tickets \ {TicketRow(r.id)}) \cup
              {[TicketRow(r.id) EXCEPT !.votes = r.up - r.down]}
         /\ req' = [req EXCEPT ![s] = Respond(r, 200)]
       ELSE
         /\ req' = [req EXCEPT ![s] = Respond(r, 500)]
         /\ UNCHANGED tickets
  /\ UNCHANGED <<users, comments, votes, categories, roleReqs, nextVoteId, budget, applied, held>>

(* ------------------------- register and login ------------------------ *)
Emails == 1..MaxUsers

\* req.body of POST /api/auth/register: flag says that name, email and
\* password are all present, id is the email and val the role ("" when the
\* body has no role).
StartRegister(s) ==
  \E ok \in BOOLEAN, e \in Emails, role \in Roles \cup {""} :
    /\ ok \/ (e = 1 /\ role = "")
    /\ Arrive(s, "register", 0, e, role, ok)

\* The unique key of users.email.
EmailFree(e, u) == ~\E r \in users : r.email = e /\ r.id # u

\* prisma.user.findUnique({ where: { email } })
RegisterFind(s) ==
  /\ req[s].pc = "register_find"
  /\ req' = [req EXCEPT ![s] =
       IF ~EmailFree(req[s].id, 0) THEN Respond(req[s], 400)
       ELSE [req[s] EXCEPT !.pc = "register_create"]]
  /\ UNCHANGED <<db, nextVoteId, budget, applied, held>>

\* const { ..., role = 'END_USER' } = req.body
RegisterRole(r) == IF r.val = "" THEN DefaultRole ELSE r.val

\* prisma.user.create({ data: { name, email, password, role } })
RegisterCreate(s) ==
  /\ req[s].pc = "register_create"
  /\ LET r == req[s] IN
       IF EmailFree(r.id, 0) THEN
         /\ Cardinality(users) < MaxUsers
         /\ LET u == Cardinality(users) + 1 IN
              /\ users' = users \cup
                   {[id |-> u, email |-> r.id, role |-> RegisterRole(r)]}
              /\ req' = [req EXCEPT ![s] =
                   [Respond(r, 201) EXCEPT !.uid = u, !.role = RegisterRole(r),
                                           !.out = {u}]]
              /\ held' = held \cup {u}
       ELSE
         /\ req' = [req EXCEPT ![s] = Respond(r, 500)]
         /\ UNCHANGED <<users, held>>
  /\ UNCHANGED <<tickets, comments, votes, categories, roleReqs, nextVoteId,
                 budget, applied>>

\* req.body of POST /api/auth/login: id is the email, flag says that the
\* password is the user's.
StartLogin(s) ==
  \E ok \in BOOLEAN, e \in Emails : Arrive(s, "login", 0, e, "", ok)

Login(s) ==
  /\ req[s].pc = "login"
  /\ LET r == req[s]
         found == {u \in users : u.email = r.id} IN
       IF found = {} \/ ~r.flag THEN
         /\ req' = [req EXCEPT ![s] = Respond(r, 400)]
         /\ UNCHANGED held
       ELSE LET u == CHOOSE x \in found : TRUE IN
         /\ req' = [req EXCEPT ![s] =
              [Respond(r, 200) EXCEPT !.uid = u.id, !.role = u.role,
                                      !.out = {u.id}]]
         /\ held' = held \cup {u.id}
  /\ UNCHANGED <<db, nextVoteId, budget, applied>>

StartMe(s) == \E tok \in held : Arrive(s, "me", tok, 0, "", FALSE)

(* ------------------------------ profile ------------------------------- *)
\* req.body of PUT /api/auth/profile: flag says that name and email are
\* present, id is the email, and val tells the password fields apart: ""
\* no newPassword, "nocurrent" a newPassword without currentPassword,
\* "wrong" and "right" a newPassword with a currentPassword that bcrypt
\* rejects or accepts.
PasswordModes == {"", "nocurrent", "wrong", "right"}

StartProfile(s) ==
  \E tok \in held, ok \in BOOLEAN, e \in Emails, pw \in PasswordModes :
    /\ ok \/ (e = 1 /\ pw = "")
    /\ Arrive(s, "profile", tok, e, pw, ok)

\* prisma.user.findFirst({ where: { email, NOT: { id: userId } } })
ProfileFind(s) ==
  /\ req[s].pc = "profile_find"
  /\ LET r == req[s] IN
       req' = [req EXCEPT ![s] =
         IF ~EmailFree(r.id, r.uid) THEN Respond(r, 400)
         ELSE IF r.val = "" THEN [r EXCEPT !.pc = "profile_update"]
         ELSE IF r.val = "nocurrent" THEN Respond(r, 400)
         ELSE [r EXCEPT !.pc = "profile_check"]]
  /\ UNCHANGED <<db, nextVoteId, budget, applied, held>>

\* prisma.user.findUnique({ where: { id: userId } }) and bcrypt.compare
ProfileCheck(s) ==
  /\ req[s].pc = "profile_check"
  /\ req' = [req EXCEPT ![s] =
       IF req[s].val = "wrong" THEN Respond(req[s], 400)
       ELSE [req[s] EXCEPT !.pc = "profile_update"]]
  /\ UNCHANGED <<db, nextVoteId, budget, applied, held>>

\* prisma.user.update({ where: { id: userId }, data: updateData }):
\* updateData holds name, email and, with a new password, password.
ProfileUpdate(s) ==
  /\ req[s].pc = "profile_update"
  /\ LET r == req[s] IN
       IF EmailFree(r.id, r.uid) THEN
         /\ users' = (users \ {UserRow(r.uid)}) \cup
              {[UserRow(r.uid) EXCEPT !.email = r.id]}
         /\ req' = [req EXCEPT ![s] = [Respond(r, 200) EXCEPT !.out = {r.uid}]]
       ELSE
         /\ req' = [req EXCEPT ![s] = Respond(r, 500)]
         /\ UNCHANGED users
  /\ UNCHANGED <<tickets, comments, votes, categories, roleReqs, nextVoteId,
                 budget, applied, held>>

(* ----------------------------- categories ----------------------------- *)
StartListCategories(s) ==
  \E tok \in held : Arrive(s, "categories_get", tok, 0, "", FALSE)

ListCategories(s) ==
  /\ req[s].pc = "categories_get"
  /\ req' = [req EXCEPT ![s] =
       [Respond(req[s], 200) EXCEPT !.out = {c.id : c \in categories}]]
  /\ UNCHANGED <<db, nextVoteId, budget, applied, held>>

StartCreateCategory(s) ==
  \E tok \in held : Arrive(s, "categories_post", tok, 0, "", FALSE)

\* prisma.category.create({ data: { ..., createdBy: req.user.id } })
CreateCategory(s) ==
  /\ req[s].pc = "categories_post"
  /\ Cardinality(categories) < MaxCategories
  /\ LET c == Cardinality(categories) + 1 IN
       /\ categories' = categories \cup {[id |-> c, createdBy |-> req[s].uid]}
       /\ req' = [req EXCEPT ![s] = [Respond(req[s], 201) EXCEPT !.out = {c}]]
  /\ UNCHANGED <<users, tickets, comments, votes, roleReqs, nextVoteId, budget,
                 applied, held>>

(* --------------------------- reading tickets -------------------------- *)
\* req.query of GET /api/tickets: val is the status filter ("" for none).
\* The category, search, sort and page parameters are drawn when the query
\* runs (TicketsList).
StartListTickets(s) ==
  \E tok \in held, st \in ValidStatuses \cup {""} :
    Arrive(s, "tickets_get", tok, 0, st, FALSE)

\* (mutant) the where clause without the role-based filter
WhereAnyCreator(r, match) ==
  {t \in tickets :
     /\ r.val # "" => t.status = r.val
     /\ t.id \in match}

\* The where clause: createdBy for an END_USER, status when given, and the
\* category and search conditions, which hold of the tickets in match.
Where(r, match) ==
  {t \in tickets :
     /\ r.role = "END_USER" => t.createdBy = r.uid
     /\ r.val # "" => t.status = r.val
     /\ t.id \in match}

\* orderBy createdAt (tickets are numbered in the order of their creation),
\* skip: (page - 1) * limit, take: limit.
Page(rows, desc, page, limit) ==
  {t \in rows :
     LET rank == IF desc THEN Cardinality({x \in rows : x.id > t.id})
                 ELSE Cardinality({x \in rows : x.id < t.id})
     IN rank >= (page - 1) * limit /\ rank < page * limit}

\* limit = 10 of req.query
DefaultLimit == 10

\* prisma.ticket.findMany({ where, orderBy, skip, take }); the handler then
\* counts the rows of the same where clause for the pagination and answers.
TicketsList(s) ==
  /\ req[s].pc = "tickets_get"
  /\ \E match \in SUBSET {t.id : t \in tickets}, desc \in BOOLEAN,
        page \in {1, 2}, limit \in {1, DefaultLimit} :
       req' = [req EXCEPT ![s] =
         [Respond(req[s], 200) EXCEPT
            !.out = {t.id : t \in Page(Where(req[s], match), desc, page, limit)}]]
  /\ UNCHANGED <<db, nextVoteId, budget, applied, held>>

StartGetTicket(s) ==
  \E tok \in held, t \in TicketIds : Arrive(s, "ticket_get", tok, t, "", FALSE)

\* prisma.ticket.findUnique({ where: { id } }) and the permission check
TicketGet(s) ==
  /\ req[s].pc = "ticket_get"
  /\ LET r == req[s] IN
       req' = [req EXCEPT ![s] =
         IF ~TicketExists(r.id) THEN Respond(r, 404)
         ELSE IF r.role = "END_USER" /\ TicketRow(r.id).createdBy # r.uid
              THEN Respond(r, 403)
         ELSE [Respond(r, 200) EXCEPT !.out = {r.id}]]
  /\ UNCHANGED <<db, nextVoteId, budget, applied, held>>

(* --------------------------- ticket status ---------------------------- *)
StartStatus(s) ==
  \E tok \in held, t \in TicketIds, st \in ValidStatuses \cup {"BOGUS"} :
    Arrive(s, "status_put", tok, t, st, FALSE)

CommentCount(t) == Cardinality({c \in comments : c.ticketId = t})

\* (mutant) the owner may close a ticket that has no comment
CanCloseWithoutComment(r, ticket) ==
  \/ r.role = "ADMIN"
  \/ r.role = "SUPPORT_AGENT"
  \/ (r.uid = ticket.createdBy /\ r.val = "CLOSED")

\* canChangeStatus, from the ticket the handler has just read
CanChangeStatus(r, ticket) ==
  \/ r.role = "ADMIN"
  \/ r.role = "SUPPORT_AGENT"
  \/ (r.uid = ticket.createdBy /\ r.val = "CLOSED" /\ CommentCount(ticket.id) > 0)

\* prisma.ticket.findUnique({ where: { id }, include: { _count } })
StatusFind(s) ==
  /\ req[s].pc = "status_find"
  /\ LET r == req[s] IN
       req' = [req EXCEPT ![s] =
         IF ~TicketExists(r.id) THEN Respond(r, 404)
         ELSE IF ~CanChangeStatus(r, TicketRow(r.id)) THEN Respond(r, 403)
         ELSE [r EXCEPT !.pc = "status_update"]]
  /\ UNCHANGED <<db, nextVoteId, budget, applied, held>>

\* prisma.ticket.update({ where: { id }, data: { status, closedAt } })
StatusUpdate(s) ==
  /\ req[s].pc = "status_update"
  /\ LET r == req[s] IN
       /\ tickets' = (tickets \ {TicketRow(r.id)}) \cup
            {[TicketRow(r.id) EXCEPT !.status = r.val]}
       /\ req' = [req EXCEPT ![s] = [Respond(r, 200) EXCEPT !.out = {r.id}]]
  /\ UNCHANGED <<users, comments, votes, categories, roleReqs, nextVoteId,
                 budget, applied, held>>

(* ------------------------------ comments ------------------------------ *)
StartComment(s) ==
  \E tok \in held, t \in TicketIds : Arrive(s, "comment_post", tok, t, "", FALSE)

\* prisma.comment.create({ data: { content, ticketId: id, userId } }); the
\* ticket relation rejects a comment on a ticket that does not exist.
CommentCreate(s) ==
  /\ req[s].pc = "comment_post"
  /\ LET r == req[s] IN
       IF TicketExists(r.id) THEN
         /\ Cardinality(comments) < MaxComments
         /\ LET c == Cardinality(comments) + 1 IN
              /\ comments' = comments \cup
                   {[id |-> c, ticketId |-> r.id, userId |-> r.uid]}
              /\ req' = [req EXCEPT ![s] = [Respond(r, 201) EXCEPT !.out = {c}]]
       ELSE
         /\ req' = [req EXCEPT ![s] = Respond(r, 500)]
         /\ UNCHANGED comments
  /\ UNCHANGED <<users, tickets, votes, categories, roleReqs, nextVoteId, budget,
                 applied, held>>

StartUserVote(s) ==
  \E tok \in held, t \in TicketIds :
    Arrive(s, "user_vote_get", tok, t, "", FALSE)

\* GET /api/tickets/:id/user-vote
UserVote(s) ==
  /\ req[s].pc = "user_vote_get"
  /\ req' = [req EXCEPT ![s] =
       [Respond(req[s], 200) EXCEPT
          !.out = {v.id : v \in {x \in votes : x.userId = req[s].uid
                                              /\ x.ticketId = req[s].id}}]]
  /\ UNCHANGED <<db, nextVoteId, budget, applied, held>>

(* ------------------------------- admin -------------------------------- *)
StartAnalytics(s) == \E tok \in held : Arrive(s, "analytics", tok, 0, "", FALSE)

\* GET /api/admin/analytics: counts only, nothing is written.
Analytics(s) ==
  /\ req[s].pc = "analytics"
  /\ req' = [req EXCEPT ![s] = Respond(req[s], 200)]
  /\ UNCHANGED <<db, nextVoteId, budget, applied, held>>

StartListUsers(s) ==
  \E tok \in held : Arrive(s, "admin_users", tok, 0, "", FALSE)

\* GET /api/admin/users
ListUsers(s) ==
  /\ req[s].pc = "admin_users"
  /\ req' = [req EXCEPT ![s] =
       [Respond(req[s], 200) EXCEPT !.out = {u.id : u \in users}]]
  /\ UNCHANGED <<db, nextVoteId, budget, applied, held>>

(* ----------------------- role-upgrade requests ------------------------ *)
StartRoleRequest(s) ==
  \E tok \in held, role \in Roles \cup {""} :
    Arrive(s, "rolereq_post", tok, 0, role, FALSE)

\* prisma.roleUpgradeRequest.findFirst({ where: { userId, status: 'PENDING' } })
RoleRequestFind(s) ==
  /\ req[s].pc = "rolereq_find"
  /\ LET r == req[s] IN
       req' = [req EXCEPT ![s] =
         IF \E q \in roleReqs : q.userId = r.uid /\ q.status = "PENDING"
         THEN Respond(r, 400)
         ELSE [r EXCEPT !.pc = "rolereq_create"]]
  /\ UNCHANGED <<db, nextVoteId, budget, applied, held>>

\* prisma.roleUpgradeRequest.create({ data: { userId, requestedRole,
\* currentRole: req.user.role, reason } }); status takes the schema's default.
RoleRequestCreate(s) ==
  /\ req[s].pc = "rolereq_create"
  /\ Cardinality(roleReqs) < MaxRoleReqs
  /\ LET r == req[s]
         q == Cardinality(roleReqs) + 1 IN
       /\ roleReqs' = roleReqs \cup
            {[id |-> q, userId |-> r.uid, requestedRole |-> r.val,
              currentRole |-> r.role, status |-> DefaultRequestStatus,
              processedBy |-> 0]}
       /\ req' = [req EXCEPT ![s] = [Respond(r, 201) EXCEPT !.out = {q}]]
  /\ UNCHANGED <<users, tickets, comments, votes, categories, nextVoteId, budget,
                 applied, held>>

StartListRoleRequests(s) ==
  \E tok \in held : Arrive(s, "rolereq_get", tok, 0, "", FALSE)

\* GET /api/role-requests
ListRoleRequests(s) ==
  /\ req[s].pc = "rolereq_get"
  /\ req' = [req EXCEPT ![s] =
       [Respond(req[s], 200) EXCEPT !.out = {q.id : q \in roleReqs}]]
  /\ UNCHANGED <<db, nextVoteId, budget, applied, held>>

StartMyRoleRequests(s) ==
  \E tok \in held : Arrive(s, "my_rolereqs", tok, 0, "", FALSE)

\* GET /api/my-role-requests
MyRoleRequests(s) ==
  /\ req[s].pc = "my_rolereqs"
  /\ req' = [req EXCEPT ![s] =
       [Respond(req[s], 200) EXCEPT
          !.out = {q.id : q \in {x \in roleReqs : x.userId = req[s].uid}}]]
  /\ UNCHANGED <<db, nextVoteId, budget, applied, held>>

RoleReqRow(q) == CHOOSE r \in roleReqs : r.id = q
RoleReqExists(q) == \E r \in roleReqs : r.id = q

StartProcess(s) ==
  \E tok \in held, q \in RoleReqIds, st \in Decisions \cup {"PENDING"} :
    Arrive(s, "rolereq_put", tok, q, st, FALSE)

\* (mutant) a request that is no longer PENDING is processed again
ProcessFindAnyStatus(s) ==
  /\ req[s].pc = "process_find"
  /\ LET r == req[s] IN
       req' = [req EXCEPT ![s] =
         IF ~RoleReqExists(r.id) THEN Respond(r, 404)
         ELSE [r EXCEPT !.pc = "process_update",
                        !.loc = RoleReqRow(r.id).userId,
                        !.ltype = RoleReqRow(r.id).requestedRole]]
  /\ UNCHANGED <<db, nextVoteId, budget, applied, held>>

\* prisma.roleUpgradeRequest.findUnique({ where: { id }, include: { user } });
\* loc and ltype keep request.userId and request.requestedRole.
ProcessFind(s) ==
  /\ req[s].pc = "process_find"
  /\ LET r == req[s] IN
       req' = [req EXCEPT ![s] =
         IF ~RoleReqExists(r.id) THEN Respond(r, 404)
         ELSE IF RoleReqRow(r.id).status # "PENDING" THEN Respond(r, 400)
         ELSE [r EXCEPT !.pc = "process_update",
                        !.loc = RoleReqRow(r.id).userId,
                        !.ltype = RoleReqRow(r.id).requestedRole]]
  /\ UNCHANGED <<db, nextVoteId, budget, applied, held>>

\* prisma.roleUpgradeRequest.update({ where: { id },
\*   data: { status, processedAt, processedBy: req.user.id } })
ProcessUpdate(s) ==
  /\ req[s].pc = "process_update"
  /\ LET r == req[s] IN
       /\ roleReqs' = (roleReqs \ {RoleReqRow(r.id)}) \cup
            {[RoleReqRow(r.id) EXCEPT !.status = r.val, !.processedBy = r.uid]}
       /\ req' = [req EXCEPT ![s] =
            IF r.val = "APPROVED" THEN [r EXCEPT !.pc = "process_user"]
            ELSE [Respond(r, 200) EXCEPT !.out = {r.id}]]
  /\ UNCHANGED <<users, tickets, comments, votes, categories, nextVoteId, budget,
                 applied, held>>

\* prisma.user.update({ where: { id: request.userId },
\*   data: { role: request.requestedRole } })
ProcessUser(s) ==
  /\ req[s].pc = "process_user"
  /\ LET r == req[s] IN
       /\ users' = (users \ {UserRow(r.loc)}) \cup
            {[UserRow(r.loc) EXCEPT !.role = r.ltype]}
       /\ applied' = applied \cup {r.id}
       /\ req' = [req EXCEPT ![s] = [Respond(r, 200) EXCEPT !.out = {r.id}]]
  /\ UNCHANGED <<tickets, comments, votes, categories, roleReqs, nextVoteId, budget, held>>

\* A database operation that fails (the connection is lost, the query times
\* out) throws: the handler's catch block answers 500 and the handler ends.
DbError(s) ==
  /\ req[s].pc \notin {"idle", "absent", "auth", "done"}
  /\ req' = [req EXCEPT ![s] = Respond(req[s], 500)]
  /\ UNCHANGED <<db, nextVoteId, budget, applied, held>>

(* --------------------------- specifications --------------------------- *)
\* Voting on tickets.
NextVote ==
  \E s \in Slots :
    \/ StartCreateTicket(s)
    \/ StartVote(s)
    \/ Authenticate(s)
    \/ TicketCreate(s)
    \/ VoteFind(s)
    \/ VoteWrite(s)
    \/ VoteCountUp(s)
    \/ VoteCountDown(s)
    \/ VoteUpdateTicket(s)

SpecVote == InitTwo /\ [][NextVote]_vars

\* Role-upgrade requests, with a database that may fail.
NextRole ==
  \E s \in Slots :
    \/ StartRoleRequest(s)
    \/ StartProcess(s)
    \/ Authenticate(s)
    \/ RoleRequestFind(s)
    \/ RoleRequestCreate(s)
    \/ ProcessFind(s)
    \/ ProcessUpdate(s)
    \/ ProcessUser(s)
    \/ DbError(s)

SpecRole == InitTwo /\ [][NextRole]_vars

\* Role-upgrade requests, with a database that answers every query.
NextProcess ==
  \E s \in Slots :
    \/ StartRoleRequest(s)
    \/ StartProcess(s)
    \/ Authenticate(s)
    \/ RoleRequestFind(s)
    \/ RoleRequestCreate(s)
    \/ ProcessFind(s)
    \/ ProcessUpdate(s)
    \/ ProcessUser(s)

SpecProcess == InitTwo /\ [][NextProcess]_vars

\* Tickets, their status and their comments.
NextTicket ==
  \E s \in Slots :
    \/ StartCreateTicket(s)
    \/ StartStatus(s)
    \/ StartComment(s)
    \/ Authenticate(s)
    \/ TicketCreate(s)
    \/ StatusFind(s)
    \/ StatusUpdate(s)
    \/ CommentCreate(s)

SpecTicket == InitTwo /\ [][NextTicket]_vars

\* Reading tickets while tickets are created and their status changes.
NextRead ==
  \E s \in Slots :
    \/ StartCreateTicket(s)
    \/ StartListTickets(s)
    \/ StartGetTicket(s)
    \/ StartStatus(s)
    \/ Authenticate(s)
    \/ TicketCreate(s)
    \/ TicketsList(s)
    \/ TicketGet(s)
    \/ StatusFind(s)
    \/ StatusUpdate(s)

SpecRead == InitTwo /\ [][NextRead]_vars

\* Every route of the server.
Next ==
  \E s \in Slots :
    \/ StartRegister(s)
    \/ StartLogin(s)
    \/ StartMe(s)
    \/ StartProfile(s)
    \/ StartListCategories(s)
    \/ StartCreateCategory(s)
    \/ StartListTickets(s)
    \/ StartCreateTicket(s)
    \/ StartGetTicket(s)
    \/ StartStatus(s)
    \/ StartComment(s)
    \/ StartVote(s)
    \/ StartUserVote(s)
    \/ StartAnalytics(s)
    \/ StartListUsers(s)
    \/ StartRoleRequest(s)
    \/ StartListRoleRequests(s)
    \/ StartProcess(s)
    \/ StartMyRoleRequests(s)
    \/ Authenticate(s)
    \/ RegisterFind(s)
    \/ RegisterCreate(s)
    \/ Login(s)
    \/ ProfileFind(s)
    \/ ProfileCheck(s)
    \/ ProfileUpdate(s)
    \/ ListCategories(s)
    \/ CreateCategory(s)
    \/ TicketsList(s)
    \/ TicketCreate(s)
    \/ TicketGet(s)
    \/ StatusFind(s)
    \/ StatusUpdate(s)
    \/ CommentCreate(s)
    \/ VoteFind(s)
    \/ VoteWrite(s)
    \/ VoteCountUp(s)
    \/ VoteCountDown(s)
    \/ VoteUpdateTicket(s)
    \/ UserVote(s)
    \/ Analytics(s)
    \/ ListUsers(s)
    \/ RoleRequestFind(s)
    \/ RoleRequestCreate(s)
    \/ ListRoleRequests(s)
    \/ MyRoleRequests(s)
    \/ ProcessFind(s)
    \/ ProcessUpdate(s)
    \/ ProcessUser(s)

Spec == Init /\ [][Next]_vars

(* ------------------------------- claims ------------------------------- *)
\* The user on whose behalf a request runs: before authenticateToken has
\* looked the user up, the user its token names.
Requester(r) == IF r.pc = "auth" THEN r.token ELSE r.uid

InFlight(r) == r.pc \notin {"idle", "done", "absent"}

\* C1: after any interleaving of vote requests there is at most one vote row
\* for each (user, ticket) pair, so no user holds two votes, nor an UP and a
\* DOWN vote, on one ticket.
C1_OneVotePerUserAndTicket ==
  \A v1 \in votes, v2 \in votes :
    (v1.userId = v2.userId /\ v1.ticketId = v2.ticketId) => v1 = v2

\* C1 witness: two vote requests of one user on one ticket have raced; the
\* database rejected the write of one of them and the user's vote is there.
C1_Witness ==
  \E s1 \in Slots, s2 \in Slots :
    /\ s1 # s2
    /\ req[s1].kind = "vote_post" /\ req[s2].kind = "vote_post"
    /\ req[s1].uid # 0 /\ req[s1].uid = req[s2].uid /\ req[s1].id = req[s2].id
    /\ req[s1].pc = "done" /\ req[s1].code = 500
    /\ \E v \in votes : v.userId = req[s1].uid /\ v.ticketId = req[s1].id

\* C2: whenever no vote request on a ticket is in progress, the ticket's
\* votes field is the number of its UP votes minus the number of its DOWN
\* votes, for concurrent vote requests made by different users.
C2_VotesFieldIsNetScore ==
  (\A s1 \in Slots, s2 \in Slots :
     (s1 # s2 /\ req[s1].kind = "vote_post" /\ req[s2].kind = "vote_post")
       => Requester(req[s1]) # Requester(req[s2]))
  => \A t \in tickets :
       (\A s \in Slots :
          ~(req[s].kind = "vote_post" /\ req[s].id = t.id /\ InFlight(req[s])))
       => t.votes = VoteCount(t.id, "UP") - VoteCount(t.id, "DOWN")

\* C3: apart from the roles of the accounts present initially, a user holds
\* SUPPORT_AGENT or ADMIN only through an approved role-upgrade request for
\* that user; register, profile update and creating a role request leave
\* their caller an END_USER.
C3_ElevationOnlyByApproval ==
  \A u \in users :
    \/ u.role = "END_USER"
    \/ \E d \in DemoUsers : d.id = u.id /\ d.role = u.role
    \/ \E q \in roleReqs :
         /\ q.userId = u.id /\ q.requestedRole = u.role
         /\ q.status = "APPROVED" /\ q.processedBy # 0

\* C4: in every reachable state a role request has status APPROVED only if
\* that approval has set its user's role to the requested role.
C4_ApprovedImpliesRoleSet ==
  \A q \in roleReqs : q.status = "APPROVED" => q.id \in applied

\* C5: an END_USER's GET /api/tickets returns only tickets the requester
\* created, whatever the parameters; GET /api/tickets/:id answers an
\* END_USER 403 for an existing ticket of another user; a SUPPORT_AGENT or
\* ADMIN is answered 200 for every existing ticket and its where clause,
\* without parameters, selects every ticket.
C5_EndUserReadsOwnTicketsOnly ==
  /\ [](\A s \in Slots :
          (req[s].pc = "tickets_get" /\ req[s].role \in {"SUPPORT_AGENT", "ADMIN"})
            => Where([req[s] EXCEPT !.val = ""], TicketIds) = tickets)
  /\ [][\A s \in Slots :
          LET r == req[s]
              a == req'[s]
              staff == r.role \in {"SUPPORT_AGENT", "ADMIN"} IN
          /\ (r.pc = "tickets_get" /\ a.pc = "done" /\ r.role = "END_USER")
               => /\ a.code = 200
                  /\ \A t \in a.out :
                       TicketExists(t) /\ TicketRow(t).createdBy = r.uid
          /\ (r.pc = "ticket_get" /\ a.pc = "done" /\ TicketExists(r.id))
               => IF r.role = "END_USER" /\ TicketRow(r.id).createdBy # r.uid
                  THEN a.code = 403 /\ a.out = {}
                  ELSE a.code = 200 /\ a.out = {r.id}
          /\ (r.pc = "ticket_get" /\ a.pc = "done" /\ staff /\ TicketExists(r.id))
               => a.code = 200]_vars

\* C5 witness: an END_USER has listed tickets and got one, while the table
\* holds a ticket of another user.
C5_Witness ==
  \E s \in Slots :
    /\ req[s].kind = "tickets_get" /\ req[s].pc = "done"
    /\ req[s].role = "END_USER" /\ req[s].out # {}
    /\ \E t \in tickets : t.createdBy # req[s].uid

\* C6: creating a category, reading analytics, listing users, listing role
\* requests and processing a role request run and succeed only for a
\* requester whose role is ADMIN; any other authenticated requester is
\* answered 403 and the database is left as it was.
C6_AdminOnly ==
  /\ [](\A s \in Slots :
          (/\ req[s].kind \in {"categories_post", "analytics", "admin_users",
                               "rolereq_get", "rolereq_put"}
           /\ req[s].pc \notin {"idle", "absent", "auth"}
           /\ (req[s].pc = "done" => req[s].code \in {200, 201}))
            => req[s].role = "ADMIN")
  /\ [][\A s \in Slots :
          (/\ req[s].kind \in {"categories_post", "analytics", "admin_users",
                               "rolereq_get", "rolereq_put"}
           /\ req[s].pc = "auth" /\ req'[s].pc # "auth"
           /\ req'[s].uid # 0 /\ req'[s].role # "ADMIN")
            => (req'[s].pc = "done" /\ req'[s].code = 403 /\ db' = db)]_vars

\* C6 witness: a category exists and an authenticated user who is no ADMIN
\* has been answered 403 on an admin route.
C6_Witness ==
  /\ categories # {}
  /\ \E s \in Slots :
       /\ req[s].kind \in {"categories_post", "rolereq_put"}
       /\ req[s].pc = "done" /\ req[s].code = 403
       /\ req[s].uid # 0 /\ req[s].role # "ADMIN"

\* C7: every route other than register and login runs its handler only for
\* a request whose token verifies and names an existing user; without a
\* token the answer is 401, with an invalid token or the token of a user
\* that does not exist it is 403, and the database is left as it was.
C7_AuthenticatedOnly ==
  /\ [](\A s \in Slots :
          (/\ req[s].kind \notin {"none", "register", "login"}
           /\ req[s].pc \notin {"idle", "absent", "auth"}
           /\ (req[s].pc = "done" => req[s].code \notin {401, 403}))
            => (req[s].uid # 0 /\ UserExists(req[s].uid)))
  /\ [][\A s \in Slots :
          LET r == req[s]
              a == req'[s] IN
          /\ (r.pc \in {"idle", "done"} /\ a.pc \notin {"idle", "done"}
              /\ a.kind \notin {"register", "login"})
               => (a.pc = "auth" /\ db' = db)
          /\ (r.pc = "auth" /\ a.pc # "auth" /\ r.token = 0)
               => (a.pc = "done" /\ a.code = 401 /\ db' = db)
          /\ (r.pc = "auth" /\ a.pc # "auth"
              /\ r.token # 0 /\ (r.token = -1 \/ ~UserExists(r.token)))
               => (a.pc = "done" /\ a.code = 403 /\ db' = db)
          /\ (r.pc = "auth" /\ a.pc # "auth" /\ a.uid # 0)
               => (a.uid = r.token /\ UserExists(r.token))]_vars

\* C7 witness: a request without a token has been answered 401.
C7_Witness ==
  \E s \in Slots :
    /\ req[s].kind \notin {"none", "register", "login"}
    /\ req[s].pc = "done" /\ req[s].code = 401 /\ req[s].uid = 0

\* C8: a ticket's status is always OPEN, IN_PROGRESS, RESOLVED or CLOSED; a
\* PUT /api/tickets/:id/status with another status is answered 400 and
\* leaves the tickets as they were.
C8_StatusAlwaysValid ==
  /\ [](\A t \in tickets :
          t.status \in {"OPEN", "IN_PROGRESS", "RESOLVED", "CLOSED"})
  /\ [][\A s \in Slots :
          (/\ req[s].kind = "status_put" /\ req[s].pc = "auth"
           /\ req'[s].pc # "auth" /\ req'[s].uid # 0
           /\ req[s].val \notin {"OPEN", "IN_PROGRESS", "RESOLVED", "CLOSED"})
            => (req'[s].pc = "done" /\ req'[s].code = 400 /\ db' = db)]_vars

\* C8 witness: a ticket exists, its status has been changed, and a request
\* with an invalid status on it has been answered 400.
C8_Witness ==
  /\ \E t \in tickets : t.status # "OPEN"
  /\ \E s \in Slots :
       /\ req[s].kind = "status_put" /\ req[s].pc = "done"
       /\ req[s].val = "BOGUS" /\ req[s].code = 400 /\ TicketExists(req[s].id)

\* C9: every role-upgrade request that is created belongs to a user whose
\* role at that time is END_USER and asks for SUPPORT_AGENT or ADMIN, so
\* that approving a request never lowers a role.
C9_RequestsOnlyFromEndUsers ==
  \A q \in roleReqs :
    q.currentRole = "END_USER" /\ q.requestedRole \in {"SUPPORT_AGENT", "ADMIN"}

\* C10: only a SUPPORT_AGENT or an ADMIN replies to a ticket: no comment is
\* created by a request of an END_USER.
C10_NoCommentByEndUser ==
  \A c \in comments : UserRow(c.userId).role \in {"SUPPORT_AGENT", "ADMIN"}

\* The votes of user u on ticket t in a votes table.
VotesOf(table, u, t) == {v \in table : v.userId = u /\ v.ticketId = t}

\* C11: the write of a vote request of type T by user u on an existing
\* ticket t creates a vote of type T when u has no vote on t, deletes u's
\* vote when it has type T, and changes it to type T when it has the other
\* type; the votes of other users and on other tickets are unchanged.
C11_VoteToggles ==
  [][\A s \in Slots :
       (/\ req[s].pc = "vote_write" /\ req'[s].pc # "vote_write"
        /\ TicketExists(req[s].id))
         => LET r == req[s]
                mine == VotesOf(votes, r.uid, r.id)
                after == VotesOf(votes', r.uid, r.id) IN
            /\ votes' \ after = votes \ mine
            /\ IF mine = {}
               THEN \E v \in after : after = {v} /\ v.type = r.val
               ELSE IF \A v \in mine : v.type = r.val
               THEN after = {}
               ELSE \E v \in after :
                      /\ after = {v} /\ v.type = r.val
                      /\ \E w \in mine : w.id = v.id]_vars

\* The requester of r may set ticket t to the status r asks for.
MayChange(r, t) ==
  \/ r.role \in {"ADMIN", "SUPPORT_AGENT"}
  \/ /\ r.uid = t.createdBy
     /\ r.val = "CLOSED"
     /\ \E c \in comments : c.ticketId = t.id

\* C12: a status change to a valid status on an existing ticket is applied
\* if and only if the requester is ADMIN, or is SUPPORT_AGENT, or is the
\* ticket's creator requesting CLOSED on a ticket with at least one comment;
\* in every other case the answer is 403 and the ticket is unchanged.
C12_StatusChangePermission ==
  /\ [](\A s \in Slots :
          req[s].pc = "status_update"
            => TicketExists(req[s].id) /\ MayChange(req[s], TicketRow(req[s].id)))
  /\ [][\A s \in Slots :
          LET r == req[s]
              a == req'[s] IN
          /\ (r.pc = "status_find" /\ a.pc # "status_find" /\ TicketExists(r.id))
               => IF MayChange(r, TicketRow(r.id))
                  THEN a.pc = "status_update"
                  ELSE a.pc = "done" /\ a.code = 403 /\ tickets' = tickets
          /\ (r.pc = "status_update" /\ a.pc # "status_update")
               => /\ a.pc = "done" /\ a.code = 200
                  /\ \E t \in tickets' : t.id = r.id /\ t.status = r.val]_vars
  /\ [][\A t \in tickets : \A n \in tickets' :
          (n.id = t.id /\ n.status # t.status)
            => \E s \in Slots :
                 /\ req[s].pc = "status_update" /\ req'[s].pc = "done"
                 /\ req[s].id = t.id /\ req[s].val = n.status]_vars

\* C12 witness: an END_USER has closed their own ticket, which has a comment.
C12_Witness ==
  \E s \in Slots :
    /\ req[s].kind = "status_put" /\ req[s].pc = "done" /\ req[s].code = 200
    /\ req[s].role = "END_USER"
    /\ \E t \in tickets :
         /\ t.id = req[s].id /\ t.createdBy = req[s].uid /\ t.status = "CLOSED"
         /\ \E c \in comments : c.ticketId = t.id

\* C13: an END_USER closes their own ticket only after the ticket has
\* received a response: when an END_USER's request has set their own ticket
\* to CLOSED, the ticket has a comment written by a user other than its
\* creator (comments are never deleted, so one added earlier is still there).
C13_CloseOnlyAfterResponse ==
  \A s \in Slots :
    LET r == req[s] IN
    (/\ r.kind = "status_put" /\ r.pc = "done" /\ r.code = 200
     /\ r.role = "END_USER" /\ r.val = "CLOSED"
     /\ TicketExists(r.id) /\ TicketRow(r.id).createdBy = r.uid)
      => \E c \in comments : c.ticketId = r.id /\ c.userId # r.uid

\* User u has a role request with status PENDING.
HasPending(u) == \E q \in roleReqs : q.userId = u /\ q.status = "PENDING"

\* C14: after any interleaving of POST /api/role-requests requests each user
\* has at most one role request with status PENDING, and a request that is
\* answered while its user has a pending one is refused and creates nothing.
C14_OnePendingRequestPerUser ==
  /\ [](\A q1 \in roleReqs, q2 \in roleReqs :
          (q1.userId = q2.userId /\ q1.status = "PENDING" /\ q2.status = "PENDING")
            => q1 = q2)
  /\ [][\A s \in Slots :
          (/\ req[s].kind = "rolereq_post"
           /\ req[s].pc \in {"rolereq_find", "rolereq_create"}
           /\ req'[s].pc = "done"
           /\ HasPending(req[s].uid))
            => (req'[s].code # 201 /\ roleReqs' = roleReqs)]_vars

\* C15: a role request is processed at most once: once its status is
\* APPROVED or REJECTED no PUT /api/role-requests/:id changes its status or
\* processedBy, and when two requests with different decisions have processed
\* the same pending request concurrently, the user's role was changed by the
\* request if and only if its final status is APPROVED.
C15_ProcessedAtMostOnce ==
  /\ [][\A q \in roleReqs : \A n \in roleReqs' :
          (n.id = q.id /\ q.status \in {"APPROVED", "REJECTED"})
            => (n.status = q.status /\ n.processedBy = q.processedBy)]_vars
  /\ [](\A s1 \in Slots, s2 \in Slots :
          (/\ s1 # s2
           /\ req[s1].kind = "rolereq_put" /\ req[s2].kind = "rolereq_put"
           /\ req[s1].id = req[s2].id /\ req[s1].val # req[s2].val
           /\ req[s1].pc = "done" /\ req[s1].code = 200
           /\ req[s2].pc = "done" /\ req[s2].code = 200)
            => \A q \in roleReqs :
                 q.id = req[s1].id => (q.id \in applied <=> q.status = "APPROVED"))

\* C16: PUT /api/role-requests/:id answers an admin 400 for a status other
\* than APPROVED or REJECTED, 404 for an unknown request id and 400 for a
\* request whose status is not PENDING, and in each of these cases leaves
\* every role request and every user unchanged.
C16_ProcessErrors ==
  [][\A s \in Slots :
       LET r == req[s]
           a == req'[s] IN
       /\ (/\ r.kind = "rolereq_put" /\ r.pc = "auth" /\ a.pc # "auth"
            /\ a.uid # 0 /\ a.role = "ADMIN"
            /\ r.val \notin {"APPROVED", "REJECTED"})
             => /\ a.pc = "done" /\ a.code = 400
                /\ roleReqs' = roleReqs /\ users' = users
       /\ (/\ r.pc = "process_find" /\ a.pc # "process_find"
            /\ \A q \in roleReqs : q.id # r.id)
             => /\ a.pc = "done" /\ a.code = 404
                /\ roleReqs' = roleReqs /\ users' = users
       /\ (/\ r.pc = "process_find" /\ a.pc # "process_find"
            /\ \E q \in roleReqs : q.id = r.id /\ q.status # "PENDING")
             => /\ a.pc = "done" /\ a.code = 400
                /\ roleReqs' = roleReqs /\ users' = users]_vars

\* C16 witness: an admin's decision on a role request that had already been
\* processed has been answered 400.
C16_Witness ==
  \E s \in Slots :
    /\ req[s].kind = "rolereq_put" /\ req[s].pc = "done" /\ req[s].code = 400
    /\ req[s].role = "ADMIN" /\ req[s].val \in {"APPROVED", "REJECTED"}
    /\ \E q \in roleReqs : q.id = req[s].id /\ q.status # "PENDING"

====
